---- MODULE Spec2Model ----
(***************************************************************************)
(* Vision Transformer forward pass (vit_transformer_module.py).           *)
(*                                                                         *)
(* A tensor is a nested sequence of residues modulo Modulus, so that its   *)
(* shape is read off the value the way the code reads x.shape.  The        *)
(* library primitives (Conv2d, LayerNorm, MultiheadAttention, Linear,      *)
(* GELU, Dropout, cat, broadcast addition) keep their shape rules and      *)
(* their data flow; their arithmetic is done modulo Modulus.               *)
(* Sizes are positive numbers of pixels, channels and features.            *)
(***************************************************************************)
EXTENDS Integers, Sequences, FiniteSets, TLC

\* ---- bounds of the model ----
MaxImg == 3
MaxPatch == 2
MaxLayers == 2
MaxBatch == 2
MaxSeed == 1
InChannels == 2
EmbeddingDim == 2
MlpSize == 3
NumClasses == 3
Modulus == 5
DropScale == 2

\* ---- dropout defaults of ViT.__init__, in percent ----
AttnDropoutDefault == 0
MlpDropoutDefault == 10
EmbeddingDropoutDefault == 10

VARIABLES
    phase,               \* "new", "ready" (constructed), "failed" (constructor raised)
    cfg,                 \* the constructor's arguments
    allocated,           \* the parameters and sub-modules __init__ has created, in order
    num_patches,         \* self.num_patches
    class_embedding,     \* self.class_embedding      [1][1][D]
    position_embedding,  \* self.position_embedding   [1][num_patches+1][D]
    pc,                  \* the statement ViT.forward executes next
    input,               \* the argument of the running forward call [B][C][H][W]
    class_token,         \* local class_token
    x,                   \* local x
    layer,               \* number of encoder blocks applied in this call
    result,              \* the returned logits [B][num_classes]
    err,                 \* the exception raised by the constructor or the call
    steps,               \* log: the operations this call has executed, in order
    conv_applied,        \* log: self.patcher was invoked in this call
    patch_out,           \* log: what PatchEmbedding.forward returned
    blocks,              \* log: per applied block, its input, sub-block calls and output
    clf_in,              \* log: the tensor handed to self.classifier
    prev                 \* history: input and logits of the preceding completed call

vars == <<phase, cfg, allocated, num_patches, class_embedding, position_embedding,
          pc, input, class_token, x, layer, result, err, steps, conv_applied,
          patch_out, blocks, clf_in, prev>>

\* ---- exceptions ----
NoError == [kind |-> "none", at |-> "none", dim |-> 0, patch |-> 0]

AssertionError(where, d, p) == [kind |-> "AssertionError", at |-> where, dim |-> d, patch |-> p]

RuntimeError(where) == [kind |-> "RuntimeError", at |-> where, dim |-> 0, patch |-> 0]

\* ---- arithmetic helpers ----
RECURSIVE SeqSum(_)
SeqSum(s) == IF s = <<>> THEN 0 ELSE s[1] + SeqSum(Tail(s))

Max(a, b) == IF a >= b THEN a ELSE b

\* torch.randn under a seed: seed 0 is the all-zero parameter set
Param(seed, k) == (seed * (1 + (k % (Modulus - 1)))) % Modulus

\* ---- shapes ----
Shape2(t) == <<Len(t), Len(t[1])>>

Shape3(t) == <<Len(t), Len(t[1]), Len(t[1][1])>>

Shape4(t) == <<Len(t), Len(t[1]), Len(t[1][1]), Len(t[1][1][1])>>

\* ---- the input images ----
Pixel(b, c, r, w) == (b * c + r + 2 * w) % Modulus

Image(B, C, H, W) ==
    [b \in 1..B |-> [c \in 1..C |-> [r \in 1..H |-> [w \in 1..W |-> Pixel(b, c, r, w)]]]]

Images ==
    { Image(B, C, H, W) : B \in 1..MaxBatch, C \in 1..InChannels,
                          H \in 1..MaxImg, W \in 1..MaxImg }

\* ---- library tensor operations ----
Broadcastable(sa, sb) ==
    \A k \in 1..3 : sa[k] = sb[k] \/ sa[k] = 1 \/ sb[k] = 1

\* a + b with broadcasting (only used when Broadcastable)
Add(a, b) ==
    LET sa == Shape3(a)
        sb == Shape3(b)
        ix(i, n) == IF n = 1 THEN 1 ELSE i
    IN [i \in 1..Max(sa[1], sb[1]) |->
         [j \in 1..Max(sa[2], sb[2]) |->
           [d \in 1..Max(sa[3], sb[3]) |->
              (a[ix(i, sa[1])][ix(j, sa[2])][ix(d, sa[3])]
               + b[ix(i, sb[1])][ix(j, sb[2])][ix(d, sb[3])]) % Modulus]]]

\* tensor.expand(batch_size, -1, -1) of a [1][S][D] tensor
Expand(t, batch_size) == [b \in 1..batch_size |-> t[1]]

\* torch.cat((a, b), dim=1)
Cat1(a, b) == [i \in 1..Len(a) |-> a[i] \o b[i]]

Zeros3(t) == [i \in 1..Len(t) |-> [j \in 1..Len(t[i]) |-> [d \in 1..Len(t[i][j]) |-> 0]]]

Scaled3(t) ==
    [i \in 1..Len(t) |-> [j \in 1..Len(t[i]) |->
        [d \in 1..Len(t[i][j]) |-> (DropScale * t[i][j][d]) % Modulus]]]

\* nn.Dropout(p) in training mode: the outcomes it can produce
Dropout(p, t) == IF p = 0 THEN {t} ELSE {Scaled3(t), Zeros3(t)}

\* nn.LayerNorm over the last axis (weight 1, bias 0): centring
LayerNormVec(v) == [d \in 1..Len(v) |-> (Len(v) * v[d] - SeqSum(v)) % Modulus]

LayerNorm3(t) == [i \in 1..Len(t) |-> [j \in 1..Len(t[i]) |-> LayerNormVec(t[i][j])]]

\* nn.Linear(in_features, out_features) on one vector; salt names the layer
LinearVec(seed, salt, out_features, v) ==
    [o \in 1..out_features |->
        (Param(seed, salt + o)
         + SeqSum([i \in 1..Len(v) |-> Param(seed, salt + o + 2 * i) * v[i]])) % Modulus]

Linear3(seed, salt, out_features, t) ==
    [i \in 1..Len(t) |-> [j \in 1..Len(t[i]) |-> LinearVec(seed, salt, out_features, t[i][j])]]

\* nn.GELU: non-linear, 0 at 0
Gelu3(t) ==
    [i \in 1..Len(t) |-> [j \in 1..Len(t[i]) |->
        [d \in 1..Len(t[i][j]) |-> (t[i][j][d] * t[i][j][d]) % Modulus]]]

\* ---- PatchEmbedding ----
\* nn.Conv2d(in_channels, out_channels, kernel_size=k, stride=k, padding=0) rejects t
Conv2dRejects(in_channels, k, t) ==
    \/ Len(t[1]) # in_channels
    \/ Len(t[1][1]) < k
    \/ Len(t[1][1][1]) < k

\* the convolution of an accepted [B][C][H][W] tensor: [B][out_channels][H/k][W/k]
Conv2d(seed, out_channels, k, t) ==
    LET C == Len(t[1])
        Hp == Len(t[1][1]) \div k
        Wp == Len(t[1][1][1]) \div k
        cOf(q) == ((q - 1) \div (k * k)) + 1
        rOf(q) == (((q - 1) % (k * k)) \div k) + 1
        wOf(q) == ((q - 1) % k) + 1
    IN [b \in 1..Len(t) |-> [d \in 1..out_channels |-> [i \in 1..Hp |-> [j \in 1..Wp |->
          (Param(seed, 7 + d)
           + SeqSum([q \in 1..(C * k * k) |->
                 Param(seed, d + cOf(q) + rOf(q) + wOf(q))
                 * t[b][cOf(q)][(i - 1) * k + rOf(q)][(j - 1) * k + wOf(q)]])) % Modulus]]]]

\* nn.Flatten(start_dim=2, end_dim=3): row-major over the patch grid
Flatten23(t) ==
    LET Hp == Len(t[1][1])
        Wp == Len(t[1][1][1])
    IN [b \in 1..Len(t) |-> [d \in 1..Len(t[b]) |->
          [n \in 1..(Hp * Wp) |-> t[b][d][((n - 1) \div Wp) + 1][((n - 1) % Wp) + 1]]]]

\* tensor.permute(0, 2, 1)
Permute021(t) ==
    [b \in 1..Len(t) |-> [n \in 1..Len(t[1][1]) |-> [d \in 1..Len(t[1]) |-> t[b][d][n]]]]

\* PatchEmbedding.forward: the exception, whether self.patcher was invoked, the value
PatchEmbedding_forward(c, t) ==
    LET image_resolution == Len(t[1][1][1])
    IN IF image_resolution % c.patch_size # 0
       THEN [err |-> AssertionError("PatchEmbedding.forward", image_resolution, c.patch_size),
             conv_applied |-> FALSE, out |-> <<>>]
       ELSE IF Conv2dRejects(c.in_channels, c.patch_size, t)
       THEN [err |-> RuntimeError("Conv2d"), conv_applied |-> TRUE, out |-> <<>>]
       ELSE [err |-> NoError, conv_applied |-> TRUE,
             out |-> Permute021(Flatten23(Conv2d(c.seed, c.embedding_dim, c.patch_size, t)))]

\* ---- MultiheadSelfAttentionBlock ----
Dot(u, v) == SeqSum([d \in 1..Len(u) |-> u[d] * v[d]])

\* nn.MultiheadAttention(query=x, key=x, value=x): every position attends to every
\* position; m is what the attention-weight dropout did to the weights
Attention(seed, l, m, t) ==
    [b \in 1..Len(t) |-> [i \in 1..Len(t[b]) |-> [d \in 1..Len(t[b][i]) |->
        (Param(seed, 11 * l + d)
         * SeqSum([j \in 1..Len(t[b]) |->
               m * (1 + Dot(t[b][i], t[b][j])) * t[b][j][d]])) % Modulus]]]

\* MultiheadSelfAttentionBlock.forward: the outcomes it can produce
MultiheadSelfAttentionBlock_forward(c, l, t) ==
    LET ln == LayerNorm3(t)
    IN { Attention(c.block_seed, l, m, ln) :
            m \in (IF c.attn_dropout = 0 THEN {1} ELSE {DropScale, 0}) }

\* ---- MLPBlock ----
\* the MLP without its second Linear layer
MLPBlock_forward_NoProjectionBack(c, l, t) ==
    Dropout(c.mlp_dropout, Gelu3(Linear3(c.block_seed, 13 * l, c.mlp_size, LayerNorm3(t))))

\* MLPBlock.forward: the outcomes it can produce
MLPBlock_forward(c, l, t) ==
    LET ln == LayerNorm3(t)
        hidden == Gelu3(Linear3(c.block_seed, 13 * l, c.mlp_size, ln))
    IN UNION { Dropout(c.mlp_dropout, Linear3(c.block_seed, 17 * l, c.embedding_dim, h)) :
                  h \in Dropout(c.mlp_dropout, hidden) }

\* ---- TransformerEncoderBlock ----
\* x = a + x of lines 145-146: the sum, or a failed broadcast
Residual(a, t) ==
    IF Broadcastable(Shape3(a), Shape3(t))
    THEN [ok |-> TRUE, out |-> Add(a, t)]
    ELSE [ok |-> FALSE, out |-> t]

\* the MLP applied to the block's input instead of the first residual sum
TransformerEncoderBlock_forward_MlpOnInput(c, l, t) ==
    UNION { { LET s == Residual(a, t)
                  r == Residual(m, s.out)
              IN [ok |-> s.ok /\ r.ok, in |-> t, msa_in |-> t, msa_out |-> a,
                  mlp_in |-> t, mlp_out |-> m, out |-> r.out] :
                m \in MLPBlock_forward(c, l, t) } :
            a \in MultiheadSelfAttentionBlock_forward(c, l, t) }

\* TransformerEncoderBlock.forward of block l on t: the outcomes, each with the calls
\* it made to its two sub-blocks
TransformerEncoderBlock_forward(c, l, t) ==
    UNION { LET s == Residual(a, t)
            IN IF ~s.ok
               THEN {[ok |-> FALSE, in |-> t, msa_in |-> t, msa_out |-> a,
                      mlp_in |-> <<>>, mlp_out |-> <<>>, out |-> t]}
               ELSE { LET r == Residual(m, s.out)
                      IN [ok |-> r.ok, in |-> t, msa_in |-> t, msa_out |-> a,
                          mlp_in |-> s.out, mlp_out |-> m, out |-> r.out] :
                        m \in MLPBlock_forward(c, l, s.out) } :
            a \in MultiheadSelfAttentionBlock_forward(c, l, t) }

\* ---- ViT.__init__ ----
\* patches counted along one side only
NumPatches_PerSide(img_size, patch_size) == img_size \div patch_size

NumPatches(img_size, patch_size) == (img_size * img_size) \div (patch_size * patch_size)

DropoutConfigs ==
    { [attn |-> 0, mlp |-> 0, embedding |-> 0],
      [attn |-> AttnDropoutDefault, mlp |-> MlpDropoutDefault,
       embedding |-> EmbeddingDropoutDefault] }

Config(img_size, patch_size, num_layers, drop, seed, block_seed) ==
    [img_size |-> img_size, in_channels |-> InChannels, patch_size |-> patch_size,
     num_transformer_layers |-> num_layers, embedding_dim |-> EmbeddingDim,
     mlp_size |-> MlpSize, attn_dropout |-> drop.attn, mlp_dropout |-> drop.mlp,
     embedding_dropout |-> drop.embedding, num_classes |-> NumClasses,
     seed |-> seed, block_seed |-> block_seed]

NoConfig == Config(0, 0, 0, [attn |-> 0, mlp |-> 0, embedding |-> 0], 0, 0)

Configs ==
    { Config(i, p, n, dr, s, bs) :
        i \in 1..MaxImg, p \in 1..MaxPatch, n \in 0..MaxLayers,
        dr \in DropoutConfigs, s \in 0..MaxSeed, bs \in 0..MaxSeed }

AllParameters ==
    <<"class_embedding", "position_embedding", "embedding_dropout",
      "patch_embedding", "transformer_encoder", "classifier">>

\* the divisibility assertion placed after the allocations
ViT_init_AssertAfterAllocation(c) ==
    LET n == NumPatches(c.img_size, c.patch_size)
    IN [err |-> IF c.img_size % c.patch_size # 0
                THEN AssertionError("ViT.__init__", c.img_size, c.patch_size)
                ELSE NoError,
        allocated |-> AllParameters, num_patches |-> n,
        class_embedding |-> <<<<[d \in 1..c.embedding_dim |-> Param(c.seed, d)]>>>>,
        position_embedding |->
            <<[s \in 1..(n + 1) |->
                 [d \in 1..c.embedding_dim |-> Param(c.seed, 2 * s + d)]]>>]

\* ViT.__init__: the exception, and what the constructor has created
ViT_init(c) ==
    IF c.img_size % c.patch_size # 0
    THEN [err |-> AssertionError("ViT.__init__", c.img_size, c.patch_size),
          allocated |-> <<>>, num_patches |-> 0,
          class_embedding |-> <<>>, position_embedding |-> <<>>]
    ELSE LET n == NumPatches(c.img_size, c.patch_size)
         IN [err |-> NoError, allocated |-> AllParameters, num_patches |-> n,
             class_embedding |->
                 <<<<[d \in 1..c.embedding_dim |-> Param(c.seed, d)]>>>>,
             position_embedding |->
                 <<[s \in 1..(n + 1) |->
                      [d \in 1..c.embedding_dim |-> Param(c.seed, 2 * s + d)]]>>]

\* ---- ViT.forward ----
\* the embedding dropout placed before the position addition
Successor_DropoutFirst(stage) ==
    CASE stage = "expand" -> "patch_embedding"
      [] stage = "patch_embedding" -> "cat"
      [] stage = "cat" -> "embedding_dropout"
      [] stage = "embedding_dropout" -> "position_embedding"
      [] stage = "position_embedding" -> "transformer_encoder"
      [] stage = "transformer_encoder" -> "classifier"
      [] stage = "classifier" -> "done"

\* the statement that follows each statement of ViT.forward
Successor(stage) ==
    CASE stage = "expand" -> "patch_embedding"
      [] stage = "patch_embedding" -> "cat"
      [] stage = "cat" -> "position_embedding"
      [] stage = "position_embedding" -> "embedding_dropout"
      [] stage = "embedding_dropout" -> "transformer_encoder"
      [] stage = "transformer_encoder" -> "classifier"
      [] stage = "classifier" -> "done"

\* nn.Sequential over the blocks: after `applied` blocks, the next one or the
\* statement after the stack
Goto(stage, applied) ==
    IF stage = "transformer_encoder" /\ applied >= cfg.num_transformer_layers
    THEN Successor(stage)
    ELSE stage

Step(op, idx) == [op |-> op, idx |-> idx]

NoPrev == [set |-> FALSE, input |-> <<>>, result |-> <<>>]

\* x[:, -1]
Select0_Last(t) == [b \in 1..Len(t) |-> t[b][Len(t[b])]]

\* x[:, 0]
Select0(t) == [b \in 1..Len(t) |-> t[b][1]]

\* the classifier without its Linear layer
Classifier_NoProjection(c, t) == [b \in 1..Len(t) |-> LayerNormVec(t[b])]

\* self.classifier: LayerNorm, then Linear(embedding_dim, num_classes)
Classifier(c, t) ==
    [b \in 1..Len(t) |-> LinearVec(c.seed, 19, c.num_classes, LayerNormVec(t[b]))]

Init ==
    /\ phase = "new"
    /\ cfg = NoConfig
    /\ allocated = <<>>
    /\ num_patches = 0
    /\ class_embedding = <<>>
    /\ position_embedding = <<>>
    /\ pc = "idle"
    /\ input = <<>>
    /\ class_token = <<>>
    /\ x = <<>>
    /\ layer = 0
    /\ result = <<>>
    /\ err = NoError
    /\ steps = <<>>
    /\ conv_applied = FALSE
    /\ patch_out = <<>>
    /\ blocks = <<>>
    /\ clf_in = <<>>
    /\ prev = NoPrev

\* ViT(img_size, patch_size, ...)
Construct ==
    /\ phase = "new"
    /\ \E c \in Configs :
         LET r == ViT_init(c)
         IN /\ cfg' = c
            /\ phase' = IF r.err = NoError THEN "ready" ELSE "failed"
            /\ err' = r.err
            /\ allocated' = r.allocated
            /\ num_patches' = r.num_patches
            /\ class_embedding' = r.class_embedding
            /\ position_embedding' = r.position_embedding
    /\ UNCHANGED <<pc, input, class_token, x, layer, result, steps, conv_applied,
                   patch_out, blocks, clf_in, prev>>

\* entry of ViT.forward on img, lines 214-215; remembered is what the caller keeps
\* of the call before
Enter(img, remembered) ==
    /\ input' = img
    /\ x' = img
    /\ class_token' = Expand(class_embedding, Len(img))
    /\ prev' = remembered
    /\ pc' = Goto(Successor("expand"), 0)
    /\ layer' = 0
    /\ result' = <<>>
    /\ err' = NoError
    /\ steps' = <<Step("expand", 0)>>
    /\ conv_applied' = FALSE
    /\ patch_out' = <<>>
    /\ blocks' = <<>>
    /\ clf_in' = <<>>
    /\ UNCHANGED <<phase, cfg, allocated, num_patches, class_embedding, position_embedding>>

\* model(x) on any input
Forward ==
    /\ phase = "ready"
    /\ pc = "idle"
    /\ \E img \in Images : Enter(img, NoPrev)

\* model(x) again on the input of the call that has just returned
ForwardAgain ==
    /\ phase = "ready"
    /\ pc = "done"
    /\ Enter(input, [set |-> TRUE, input |-> input, result |-> result])

\* x = self.patch_embedding(x), line 218
PatchEmbed ==
    /\ pc = "patch_embedding"
    /\ LET r == PatchEmbedding_forward(cfg, x)
       IN /\ conv_applied' = r.conv_applied
          /\ err' = r.err
          /\ IF r.err = NoError
             THEN /\ x' = r.out
                  /\ patch_out' = r.out
                  /\ pc' = Goto(Successor("patch_embedding"), layer)
             ELSE /\ pc' = "raised"
                  /\ UNCHANGED <<x, patch_out>>
    /\ steps' = Append(steps, Step("patch_embedding", 0))
    /\ UNCHANGED <<phase, cfg, allocated, num_patches, class_embedding, position_embedding,
                   input, class_token, layer, result, blocks, clf_in, prev>>

\* x = torch.cat((class_token, x), dim=1), line 221
Concat ==
    /\ pc = "cat"
    /\ x' = Cat1(class_token, x)
    /\ pc' = Goto(Successor("cat"), layer)
    /\ steps' = Append(steps, Step("cat", 0))
    /\ UNCHANGED <<phase, cfg, allocated, num_patches, class_embedding, position_embedding,
                   input, class_token, layer, result, err, conv_applied, patch_out,
                   blocks, clf_in, prev>>

\* the addition done in place on the parameter
PositionAdd_InPlace(pos, t) ==
    IF Broadcastable(Shape3(pos), Shape3(t))
    THEN [err |-> NoError, out |-> Add(pos, t), pos |-> <<Add(pos, t)[1]>>]
    ELSE [err |-> RuntimeError("add"), out |-> t, pos |-> pos]

\* the position embedding cut to the length of the sequence before the addition
PositionAdd_Sliced(pos, t) ==
    IF Len(t[1]) <= Len(pos[1])
    THEN [err |-> NoError, out |-> Add(<<SubSeq(pos[1], 1, Len(t[1]))>>, t), pos |-> pos]
    ELSE [err |-> RuntimeError("add"), out |-> t, pos |-> pos]

\* self.position_embedding + x of line 224: the exception, the sum, and the
\* parameter as the statement leaves it
PositionAdd(pos, t) ==
    IF Broadcastable(Shape3(pos), Shape3(t))
    THEN [err |-> NoError, out |-> Add(pos, t), pos |-> pos]
    ELSE [err |-> RuntimeError("add"), out |-> t, pos |-> pos]

\* x = self.position_embedding + x, line 224
AddPosition ==
    /\ pc = "position_embedding"
    /\ LET r == PositionAdd(position_embedding, x)
       IN /\ err' = r.err
          /\ x' = r.out
          /\ position_embedding' = r.pos
          /\ pc' = IF r.err = NoError
                   THEN Goto(Successor("position_embedding"), layer)
                   ELSE "raised"
    /\ steps' = Append(steps, Step("position_embedding", 0))
    /\ UNCHANGED <<phase, cfg, allocated, num_patches, class_embedding,
                   input, class_token, layer, result, conv_applied, patch_out,
                   blocks, clf_in, prev>>

\* x = self.embedding_dropout(x), line 227
EmbeddingDropout ==
    /\ pc = "embedding_dropout"
    /\ \E y \in Dropout(cfg.embedding_dropout, x) : x' = y
    /\ pc' = Goto(Successor("embedding_dropout"), layer)
    /\ steps' = Append(steps, Step("embedding_dropout", 0))
    /\ UNCHANGED <<phase, cfg, allocated, num_patches, class_embedding, position_embedding,
                   input, class_token, layer, result, err, conv_applied, patch_out,
                   blocks, clf_in, prev>>

\* one block of x = self.transformer_encoder(x), line 230
EncoderBlock ==
    /\ pc = "transformer_encoder"
    /\ layer < cfg.num_transformer_layers
    /\ \E r \in TransformerEncoderBlock_forward(cfg, layer + 1, x) :
         /\ blocks' = Append(blocks, r)
         /\ x' = r.out
         /\ err' = IF r.ok THEN NoError ELSE RuntimeError("add")
         /\ pc' = IF r.ok THEN Goto("transformer_encoder", layer + 1) ELSE "raised"
    /\ layer' = layer + 1
    /\ steps' = Append(steps, Step("block", layer + 1))
    /\ UNCHANGED <<phase, cfg, allocated, num_patches, class_embedding, position_embedding,
                   input, class_token, result, conv_applied, patch_out, clf_in, prev>>

\* x = self.classifier(x[:, 0]); return x, lines 233-235
Classify ==
    /\ pc = "classifier"
    /\ clf_in' = Select0(x)
    /\ result' = Classifier(cfg, clf_in')
    /\ x' = result'
    /\ pc' = Successor("classifier")
    /\ steps' = steps \o <<Step("extract", 0), Step("norm", 0), Step("linear", 0)>>
    /\ UNCHANGED <<phase, cfg, allocated, num_patches, class_embedding, position_embedding,
                   input, class_token, layer, err, conv_applied, patch_out, blocks, prev>>

\* the call is over (it returned or raised): the caller is back where it was before
Leave ==
    /\ pc \in {"done", "raised"}
    /\ pc' = "idle"
    /\ input' = <<>>
    /\ class_token' = <<>>
    /\ x' = <<>>
    /\ layer' = 0
    /\ result' = <<>>
    /\ err' = NoError
    /\ steps' = <<>>
    /\ conv_applied' = FALSE
    /\ patch_out' = <<>>
    /\ blocks' = <<>>
    /\ clf_in' = <<>>
    /\ prev' = NoPrev
    /\ UNCHANGED <<phase, cfg, allocated, num_patches, class_embedding, position_embedding>>

Next ==
    \/ Construct
    \/ Forward
    \/ ForwardAgain
    \/ PatchEmbed
    \/ Concat
    \/ AddPosition
    \/ EmbeddingDropout
    \/ EncoderBlock
    \/ Classify
    \/ Leave

Spec == Init /\ [][Next]_vars

\* ---- properties ----
IsZero3(t) == t = Zeros3(t)

RightShape(img) ==
    Shape4(img) = <<Len(img), cfg.in_channels, cfg.img_size, cfg.img_size>>

TokenShape == <<Len(input), num_patches + 1, cfg.embedding_dim>>

PatchEmbeddingRan == Len(steps) >= 2

PositionAddRan == Len(steps) >= 4

NoDropout == cfg.attn_dropout = 0 /\ cfg.mlp_dropout = 0 /\ cfg.embedding_dropout = 0

ExpectedSteps ==
    <<Step("expand", 0), Step("patch_embedding", 0), Step("cat", 0),
      Step("position_embedding", 0), Step("embedding_dropout", 0)>>
    \o [k \in 1..cfg.num_transformer_layers |-> Step("block", k)]
    \o <<Step("extract", 0), Step("norm", 0), Step("linear", 0)>>

IsPrefix(s, t) == Len(s) <= Len(t) /\ \A k \in 1..Len(s) : s[k] = t[k]

\* C1: a constructor call with img_size not divisible by patch_size raises the
\* assertion of ViT.__init__, which reports both values, and nothing has been
\* allocated; with img_size divisible by patch_size the constructor does not raise.
C1_DivisibilityGuard ==
    phase # "new" =>
        IF cfg.img_size % cfg.patch_size # 0
        THEN /\ phase = "failed"
             /\ err = AssertionError("ViT.__init__", cfg.img_size, cfg.patch_size)
             /\ allocated = <<>>
        ELSE /\ phase = "ready"
             /\ err.at # "ViT.__init__"
             /\ allocated = AllParameters

C1_Witness ==
    /\ phase = "failed"
    /\ cfg.img_size % cfg.patch_size # 0
    /\ err.dim = cfg.img_size
    /\ err.patch = cfg.patch_size

\* C2: whenever PatchEmbedding.forward has run on an input whose height or width is
\* not divisible by patch_size, it raised its shape assertion, carrying the
\* offending dimension and the patch size, and the convolution was not invoked.
C2_EachDimensionChecked ==
    (/\ PatchEmbeddingRan
     /\ \/ Len(input[1][1]) % cfg.patch_size # 0
        \/ Len(input[1][1][1]) % cfg.patch_size # 0)
    => /\ err.kind = "AssertionError"
       /\ err.at = "PatchEmbedding.forward"
       /\ err.patch = cfg.patch_size
       /\ err.dim \in {Len(input[1][1]), Len(input[1][1][1])}
       /\ err.dim % cfg.patch_size # 0
       /\ ~conv_applied

\* C3: a forward call on an input of shape [batch, in_channels, img_size, img_size]
\* never raises, and when it has returned the logits have shape [batch, num_classes].
C3_LogitsShape ==
    (phase = "ready" /\ pc # "idle" /\ RightShape(input)) =>
        /\ pc # "raised"
        /\ pc = "done" => Shape2(result) = <<Len(input), cfg.num_classes>>

C3_Witness ==
    /\ pc = "done"
    /\ RightShape(input)
    /\ Len(input) = MaxBatch
    /\ cfg.num_transformer_layers = MaxLayers
    /\ Shape2(result) = <<MaxBatch, NumClasses>>

\* C4: every applied encoder block returned a tensor of the shape of its input, and
\* before, between and after the blocks the running tensor has shape
\* [batch, num_patches+1, embedding_dim], for any number of blocks including zero.
C4_ShapeInvariance ==
    /\ \A k \in 1..Len(blocks) :
          /\ blocks[k].ok
          /\ Shape3(blocks[k].out) = Shape3(blocks[k].in)
          /\ Shape3(blocks[k].out) = TokenShape
    /\ pc \in {"transformer_encoder", "classifier"} => Shape3(x) = TokenShape

C4_Witness ==
    /\ pc = "classifier"
    /\ Len(blocks) = MaxLayers
    /\ Shape3(x) = <<MaxBatch, num_patches + 1, EmbeddingDim>>
    /\ num_patches > 1

\* C5: every applied block called MSA on its input, called MLP on MSA's result plus
\* that input, and returned MLP's result plus that same sum; with zeroed sub-block
\* weights both sub-blocks returned zero and the block returned its input.
C5_ResidualComposition ==
    \A k \in 1..Len(blocks) :
        LET b == blocks[k]
        IN /\ b.ok
           /\ b.msa_in = b.in
           /\ b.mlp_in = Add(b.msa_out, b.in)
           /\ b.out = Add(b.mlp_out, Add(b.msa_out, b.in))
           /\ cfg.block_seed = 0 =>
                 /\ IsZero3(b.msa_out)
                 /\ IsZero3(b.mlp_out)
                 /\ b.out = b.in

C5_Witness ==
    /\ Len(blocks) >= 1
    /\ ~IsZero3(blocks[1].in)
    /\ ~IsZero3(blocks[1].msa_out)
    /\ ~IsZero3(blocks[1].mlp_out)
    /\ blocks[1].mlp_in # blocks[1].in
    /\ blocks[1].out # blocks[1].mlp_in

\* C6: num_patches times patch_size^2 is img_size^2; PatchEmbedding.forward on an
\* input of shape [batch, in_channels, img_size, img_size] returns a tensor of shape
\* [batch, num_patches, embedding_dim]; after the class token is prepended the
\* sequence has num_patches+1 elements, the length of the position embedding.
C6_PatchCount ==
    phase = "ready" =>
        /\ num_patches * cfg.patch_size * cfg.patch_size = cfg.img_size * cfg.img_size
        /\ (pc # "idle" /\ PatchEmbeddingRan /\ RightShape(input)) =>
              /\ patch_out # <<>>
              /\ Shape3(patch_out) = <<Len(input), num_patches, cfg.embedding_dim>>
        /\ (pc = "position_embedding" /\ RightShape(input)) =>
              /\ Len(x[1]) = num_patches + 1
              /\ Len(x[1]) = Len(position_embedding[1])

C6_Witness ==
    /\ pc = "position_embedding"
    /\ RightShape(input)
    /\ cfg.img_size > cfg.patch_size
    /\ cfg.patch_size > 1 \/ cfg.img_size = MaxImg
    /\ Len(x[1]) = num_patches + 1

\* C7: after the concatenation every batch element has the class token at sequence
\* index 0 and the patch embeddings after it in their order; the tensor handed to the
\* classifier is the index-0 slice of the last block's output (of the embedding
\* dropout's output when there are no blocks), and all blocks have been applied.
C7_ClassTokenRouting ==
    /\ pc = "position_embedding" =>
          \A b \in 1..Len(x) :
              /\ x[b][1] = class_embedding[1][1]
              /\ Len(x[b]) = Len(patch_out[b]) + 1
              /\ \A k \in 1..Len(patch_out[b]) : x[b][k + 1] = patch_out[b][k]
    /\ pc = "done" =>
          /\ Len(blocks) = cfg.num_transformer_layers
          /\ Len(clf_in) = Len(input)
          /\ IF Len(blocks) > 0
             THEN \A b \in 1..Len(input) : clf_in[b] = blocks[Len(blocks)].out[b][1]
             ELSE \E y \in Dropout(cfg.embedding_dropout,
                                   Add(position_embedding,
                                       Cat1(Expand(class_embedding, Len(input)),
                                            patch_out))) :
                     \A b \in 1..Len(input) : clf_in[b] = y[b][1]

C7_Witness ==
    /\ pc = "done"
    /\ Len(blocks) = MaxLayers
    /\ Len(blocks) > 1
    /\ \A k \in 2..Len(blocks[Len(blocks)].out[1]) :
          blocks[Len(blocks)].out[1][k] # clf_in[1]
    /\ clf_in[1] # blocks[1].out[1][1]

\* C8: the class token and the position embedding keep the values the constructor
\* gave them, and with all dropout rates 0 a call that follows a completed call on
\* the same input returns the same logits.
C8_Determinism ==
    phase = "ready" =>
        /\ class_embedding = ViT_init(cfg).class_embedding
        /\ position_embedding = ViT_init(cfg).position_embedding
        /\ (pc = "done" /\ prev.set /\ prev.input = input /\ NoDropout) =>
              result = prev.result

C8_Witness ==
    /\ pc = "done"
    /\ prev.set
    /\ prev.input = input
    /\ NoDropout
    /\ cfg.seed # 0
    /\ cfg.num_transformer_layers > 0
    /\ result = prev.result
    /\ \E b \in 1..Len(result) : \E k \in 1..Len(result[b]) : result[b][k] # 0

\* C9: the operations a call has executed are always an initial part of: expansion,
\* patch embedding, prepend, position addition, embedding dropout, blocks
\* 1..num_transformer_layers in index order, extraction, normalization, projection;
\* a returned call has executed all of them; each block's input is the previous
\* block's output.
C9_StepOrder ==
    phase = "ready" /\ pc # "idle" =>
        /\ IsPrefix(steps, ExpectedSteps)
        /\ pc = "done" => steps = ExpectedSteps
        /\ \A k \in 1..(Len(blocks) - 1) : blocks[k + 1].in = blocks[k].out

C9_Witness ==
    /\ pc = "done"
    /\ cfg.num_transformer_layers = MaxLayers
    /\ Len(steps) = 8 + MaxLayers
    /\ blocks[2].in = blocks[1].out
    /\ blocks[1].out # blocks[1].in

\* C10: the position embedding has num_patches+1 rows; once the position addition has
\* run, the call has gone on exactly when the input gave num_patches patches, and
\* otherwise it raised the tensor library's shape error there, after the patch
\* embedding and with no encoder block and no classifier applied.
C10_PositionLength ==
    phase = "ready" =>
        /\ Len(position_embedding[1]) = num_patches + 1
        /\ (pc # "idle" /\ PositionAddRan) =>
              IF Len(patch_out[1]) = num_patches
              THEN pc # "raised"
              ELSE /\ pc = "raised"
                   /\ err = RuntimeError("add")
                   /\ IsPrefix(steps, ExpectedSteps) /\ Len(steps) = 4
                   /\ blocks = <<>>
                   /\ clf_in = <<>>
                   /\ result = <<>>
        /\ pc \in {"embedding_dropout", "transformer_encoder", "classifier", "done"} =>
              /\ patch_out # <<>>
              /\ Len(patch_out[1]) = num_patches

C10_Witness ==
    /\ pc = "raised"
    /\ err = RuntimeError("add")
    /\ Len(input[1][1][1]) % cfg.patch_size = 0
    /\ patch_out # <<>>
    /\ Len(patch_out[1]) # num_patches
    /\ blocks = <<>>

====
